---- MODULE Spec2Model ----
(***************************************************************************)
(* The tile scheduler of gomandel (src/unnamed/part_000): worker           *)
(* goroutines (mandelbrotService), MandelbrotService, MandelbrotQueue,     *)
(* Tile and TileManager, driven by the frame loop of main().               *)
(* The single-image program (src/gomandel.go), one render goroutine and    *)
(* the event loop of its main(), is the last section before the            *)
(* properties and has variables of its own.                                *)
(*                                                                         *)
(* Coordinates.  Rect fields are float64 in the source.  The model keeps   *)
(* them as integers in a unit chosen so that every value the bounded       *)
(* inputs produce is a whole number: a model coordinate c stands for the   *)
(* real coordinate c * 3 / HomeW(div) - 1.5, so the constant -1.5 of the   *)
(* source is Origin = 0 and the real 0.0 is HomeW(div) / 2.  Every region  *)
(* width that occurs is 3 / 2^k, for which the float64 arithmetic of the   *)
(* source is exact, and int(a / b) is truncation toward zero (Trunc).      *)
(*                                                                         *)
(* The two-value receive "x, ok := <-ch" of the source's Go dialect is a   *)
(* non-blocking poll: ok is true iff a value was received.                 *)
(***************************************************************************)
EXTENDS Integers, Sequences, FiniteSets, TLC

VARIABLES
    tm,        \* TileManager's immutable fields: Div, W, H, TilePW, TilePH
    Tiles,     \* TileManager.Tiles: the backing array (tile object ids)
    TilesLen,  \* len(TileManager.Tiles): the current tile set is Tiles[1..TilesLen]
    LastWhat,  \* TileManager.LastWhat (equal to main's rect after every request)
    tile,      \* the Tile objects: CurrentLOD, What, X, Y, Discarder, Enqueued
    chans,     \* the Discarder channels made so far: TRUE iff the slot holds a token
    Queue,     \* MandelbrotQueue.Queue: sequence of MandelbrotQueueElem
    Services,  \* MandelbrotQueue.Services: Tile (0 is nil), LastRequest
    gor,       \* the goroutine of each mandelbrotService: pc, req, y, data
    fpc,       \* the frame-loop thread: pc, k (service it sends to), e (popped elem)
    fault,     \* "" or the panic / blocked send the frame-loop thread ended in
    hist,      \* history: tokens ever set, channel birth op, counters, last requests
    ev,        \* history: what the last step did
    mainpc,    \* gomandel.go, main(): where the main thread is
    result,    \* gomandel.go, main(): TRUE iff the variable result is not nil
    render,    \* gomandel.go, the goroutine of the last mandelbrot call: pc, y, data, n
    tex,       \* gomandel.go, main(): the number of the render whose buffer is in tex
    dndDragging \* gomandel.go, main(): the flag of the same name

\* the variables of the single-image program
imgvars == <<mainpc, result, render, tex, dndDragging>>
\* the variables of the tile scheduler
tilevars == <<tm, Tiles, TilesLen, LastWhat, tile, chans, Queue, Services, gor, fpc, fault, hist, ev>>

vars == <<tm, Tiles, TilesLen, LastWhat, tile, chans, Queue, Services, gor, fpc, fault, hist, ev,
          mainpc, result, render, tex, dndDragging>>

-----------------------------------------------------------------------------
(* Bounds and program constants *)

\* most ZoomRequest calls the user makes after the start-up one
MaxZoom == 1
\* most MoveRequest calls the user makes
MaxMove == 1

\* most calls of mandelbrot() in the single-image program, the start-up one included
MaxRenders == 5

\* the height of the image the single-image program renders (512), scaled down
ImageRows == 4

\* flag -w: number of rendering workers
NumWorkers == 1
\* flag -t (tilesDiv) in the scaled-down configuration
SmallDiv == 2
\* the window size passed to NewTileManager, scaled down
SmallScreen == 8
\* flag -t default and the real window size
DefaultDiv == 8
FullScreen == 512
\* the constant -1.5 (the home viewport's corner) in model units
Origin == 0

\* width of the home viewport {-1.5,-1.5,3,3} in model units
HomeW(div) == div * (2 ^ (MaxZoom + 3))
Home(div) == [X |-> Origin, Y |-> Origin, W |-> HomeW(div), H |-> HomeW(div)]
\* the zero Rect of a Tile that was never requested
ZeroRect(div) == [X |-> HomeW(div) \div 2, Y |-> HomeW(div) \div 2, W |-> 0, H |-> 0]

Nil == 0
NoRequest == [Width |-> 0, Height |-> 0, What |-> [X |-> 0, Y |-> 0, W |-> 0, H |-> 0], Discarder |-> 0, seq |-> 0]
NoElem == [Request |-> NoRequest, Tile |-> Nil]
\* a step with nothing to note
NoEv == [t |-> "none", evs |-> <<>>]

-----------------------------------------------------------------------------
(* Pure helpers *)

\* int(float64(a) / float64(b)) for b > 0: truncation toward zero
Trunc(a, b) == IF a >= 0 THEN a \div b ELSE -((-a) \div b)

MinFloat64(i1, i2) == IF i1 < i2 THEN i1 ELSE i2
MaxFloat64(i1, i2) == IF i1 > i2 THEN i1 ELSE i2

overlaps(r1, r2) ==
    LET maxX == MaxFloat64(r1.X, r2.X)
        minX == MinFloat64(r1.X + r1.W, r2.X + r2.W)
        maxY == MaxFloat64(r1.Y, r2.Y)
        minY == MinFloat64(r1.Y + r1.H, r2.Y + r2.H)
    IN  (minX > maxX) /\ (minY > maxY)

\* cap(self.Tiles)
Cap(div) == (div + 1) * (div + 1)

\* the last column taken as the one left of the right edge's cell
GridTx2Exclusive(what, div) == Trunc((what.X - Origin + what.W) * div, what.W) - 1

\* The grid ZoomRequest and MoveRequest compute for a viewport: first and
\* last column and row, and the cells in the order of the two nested loops.
GridTx1(what, div) == Trunc((what.X - Origin) * div, what.W)
GridTy1(what, div) == Trunc((what.Y - Origin) * div, what.H)
GridTx2(what, div) == Trunc((what.X - Origin + what.W) * div, what.W)
GridTy2(what, div) == Trunc((what.Y - Origin + what.H) * div, what.H)
GridCols(what, div) == GridTx2(what, div) + 1 - GridTx1(what, div)
GridRows(what, div) == GridTy2(what, div) + 1 - GridTy1(what, div)
GridTotal(what, div) == GridCols(what, div) * GridRows(what, div)

\* the Rect r of cell (x, y)
CellRect(what, div, x, y) ==
    [X |-> (x * what.W) \div div + Origin, Y |-> (y * what.H) \div div + Origin,
     W |-> what.W \div div, H |-> what.H \div div]

\* px, py: int((r.X - what.X) / pixw) with pixw = tilew / TilePW
PixX(r, what, div, tilePW) == Trunc((r.X - what.X) * div * tilePW, what.W)
PixY(r, what, div, tilePH) == Trunc((r.Y - what.Y) * div * tilePH, what.H)

\* the k-th cell (k = 0 ..) in loop order
GridCell(what, div, k) ==
    CellRect(what, div, GridTx1(what, div) + (k % GridCols(what, div)),
                        GridTy1(what, div) + (k \div GridCols(what, div)))

-----------------------------------------------------------------------------
(* Tile and queue operations.  They run on the frame-loop thread; each is a *)
(* function on the part h of the state they touch:                          *)
(* h = [tile, chans, Queue, fault, hist].  After a panic or a send that     *)
(* blocks, the thread does nothing more.                                    *)

Heap == [tile |-> tile, chans |-> chans, Queue |-> Queue, fault |-> fault, hist |-> hist]

\* number of the ZoomRequest / MoveRequest call in progress or last made
OpNo(h) == h.hist.zooms + h.hist.moves

\* self.Discarder <- true on the capacity-1 channel d
Send(h, d) ==
    IF h.chans[d]
    THEN [h EXCEPT !.fault = "discarder send blocks"]
    ELSE [h EXCEPT !.chans[d] = TRUE, !.hist.wasSet = @ \cup {d}]

\* make(chan bool, 1): the new channel's id
NewChan(h) == Len(h.chans) + 1

\* MandelbrotQueue.Enqueue
Enqueue(h, w, ht, what, discarder, t) ==
    LET r == [Width |-> w, Height |-> ht, What |-> what, Discarder |-> discarder,
              seq |-> h.hist.enq + 1]
        e == [Request |-> r, Tile |-> t]
    IN  [h EXCEPT !.Queue = Append(@, e), !.hist.enq = @ + 1]

\* the fields NewTile gives every tile
TileW == tm.TilePW
TileH == tm.TilePH
TileSW == tm.TilePW \div 4
TileSH == tm.TilePH \div 4

\* Tile.Reset that forgets to discard the pending request
TileResetNoDiscard(h, t) ==
    IF h.fault # "" THEN h ELSE
    [h EXCEPT !.tile[t].Enqueued = FALSE, !.tile[t].CurrentLOD = -1]

\* Tile.Reset that leaves the pending flag as it was
TileResetKeepEnqueued(h, t) ==
    IF h.fault # "" THEN h ELSE
    LET h1 == IF h.tile[t].Enqueued THEN Send(h, h.tile[t].Discarder) ELSE h
    IN  IF h1.fault # "" THEN h1 ELSE [h1 EXCEPT !.tile[t].CurrentLOD = -1]

\* Tile.Reset
TileReset(h, t) ==
    IF h.fault # "" THEN h ELSE
    LET h1 == IF h.tile[t].Enqueued THEN Send(h, h.tile[t].Discarder) ELSE h
    IN  IF h1.fault # "" THEN h1 ELSE
        [h1 EXCEPT !.tile[t].Enqueued = FALSE, !.tile[t].CurrentLOD = -1]

\* Tile.Request that forgets to discard the pending request
TileRequestNoDiscard(h, t, x, y, what) ==
    IF h.fault # "" THEN h ELSE
    LET d  == NewChan(h)
        h2 == [h EXCEPT !.tile[t] = [CurrentLOD |-> -1, What |-> what, X |-> x, Y |-> y,
                                     Discarder |-> d, Enqueued |-> TRUE],
                        !.chans = Append(@, FALSE),
                        !.hist.born = Append(@, OpNo(h))]
    IN  Enqueue(h2, TileSW, TileSH, what, d, t)

\* Tile.Request that keeps a tile which already shows the region
TileRequestKeep(h, t, x, y, what) ==
    IF h.fault # "" THEN h ELSE
    IF h.tile[t].What = what /\ h.tile[t].Discarder # Nil
    THEN [h EXCEPT !.tile[t].X = x, !.tile[t].Y = y] ELSE
    LET h1 == IF h.tile[t].Enqueued THEN Send(h, h.tile[t].Discarder) ELSE h
        d  == NewChan(h1)
        h2 == [h1 EXCEPT !.tile[t] = [CurrentLOD |-> -1, What |-> what, X |-> x, Y |-> y,
                                      Discarder |-> d, Enqueued |-> TRUE],
                         !.chans = Append(@, FALSE),
                         !.hist.born = Append(@, OpNo(h1))]
    IN  IF h1.fault # "" THEN h1 ELSE Enqueue(h2, TileSW, TileSH, what, d, t)

\* Tile.Request that makes a channel only for a tile that has none
TileRequestReuseChan(h, t, x, y, what) ==
    IF h.fault # "" THEN h ELSE
    LET h1 == IF h.tile[t].Enqueued THEN Send(h, h.tile[t].Discarder) ELSE h
        fresh == h1.tile[t].Discarder = Nil
        d  == IF fresh THEN NewChan(h1) ELSE h1.tile[t].Discarder
        h2 == [h1 EXCEPT !.tile[t] = [CurrentLOD |-> -1, What |-> what, X |-> x, Y |-> y,
                                      Discarder |-> d, Enqueued |-> TRUE],
                         !.chans = IF fresh THEN Append(@, FALSE) ELSE @,
                         !.hist.born = IF fresh THEN Append(@, OpNo(h1)) ELSE @]
    IN  IF h1.fault # "" THEN h1 ELSE Enqueue(h2, TileSW, TileSH, what, d, t)

\* Tile.Request
TileRequest(h, t, x, y, what) ==
    IF h.fault # "" THEN h ELSE
    LET h1 == IF h.tile[t].Enqueued THEN Send(h, h.tile[t].Discarder) ELSE h
        d  == NewChan(h1)
        h2 == [h1 EXCEPT !.tile[t] = [CurrentLOD |-> -1, What |-> what, X |-> x, Y |-> y,
                                      Discarder |-> d, Enqueued |-> TRUE],
                         !.chans = Append(@, FALSE),
                         !.hist.born = Append(@, OpNo(h1))]
    IN  IF h1.fault # "" THEN h1 ELSE Enqueue(h2, TileSW, TileSH, what, d, t)

\* Tile.ApplyData that takes the first buffer for the final one
TileApplyDataSkip(h, t) ==
    IF h.fault # "" THEN h ELSE
    CASE h.tile[t].CurrentLOD \in {-1, 0} ->
            [h EXCEPT !.tile[t].CurrentLOD = 1, !.tile[t].Enqueued = FALSE]
      [] OTHER -> [h EXCEPT !.fault = "unreachable"]

\* Tile.ApplyData that does not enqueue the final pass
TileApplyDataNoFinal(h, t) ==
    IF h.fault # "" THEN h ELSE
    CASE h.tile[t].CurrentLOD = -1 -> [h EXCEPT !.tile[t].CurrentLOD = 0]
      [] h.tile[t].CurrentLOD = 0 ->
            [h EXCEPT !.tile[t].CurrentLOD = 1, !.tile[t].Enqueued = FALSE]
      [] OTHER -> [h EXCEPT !.fault = "unreachable"]

\* Tile.ApplyData that enqueues the second pass with the preview's dimensions
TileApplyDataSmall(h, t) ==
    IF h.fault # "" THEN h ELSE
    CASE h.tile[t].CurrentLOD = -1 ->
            Enqueue([h EXCEPT !.tile[t].CurrentLOD = 0],
                    TileSW, TileSH, h.tile[t].What, h.tile[t].Discarder, t)
      [] h.tile[t].CurrentLOD = 0 ->
            [h EXCEPT !.tile[t].CurrentLOD = 1, !.tile[t].Enqueued = FALSE]
      [] OTHER -> [h EXCEPT !.fault = "unreachable"]

\* Tile.ApplyData
TileApplyData(h, t) ==
    IF h.fault # "" THEN h ELSE
    CASE h.tile[t].CurrentLOD = -1 ->
            Enqueue([h EXCEPT !.tile[t].CurrentLOD = 0],
                    TileW, TileH, h.tile[t].What, h.tile[t].Discarder, t)
      [] h.tile[t].CurrentLOD = 0 ->
            [h EXCEPT !.tile[t].CurrentLOD = 1, !.tile[t].Enqueued = FALSE]
      [] OTHER -> [h EXCEPT !.fault = "unreachable"]

\* the frame-loop actions install the heap they computed
Install(h) ==
    /\ tile' = h.tile
    /\ chans' = h.chans
    /\ Queue' = h.Queue
    /\ fault' = h.fault
    /\ hist' = h.hist

\* history: the levels of detail a request returned to Empty
Cleared == {tile[t].CurrentLOD : t \in {x \in DOMAIN tile : tile[x].CurrentLOD # -1 /\ tile'[x].CurrentLOD = -1}}

-----------------------------------------------------------------------------
(* TileManager.ZoomRequest *)

\* the loop "for y ... for x ...": Request on Tiles[0 .. total-1] in order
RECURSIVE ZoomLoop(_, _, _, _)
ZoomLoop(h, what, k, total) ==
    IF k >= total THEN h ELSE
    LET r  == GridCell(what, tm.Div, k)
        h1 == TileRequest(h, Tiles[k + 1], PixX(r, what, tm.Div, tm.TilePW),
                          PixY(r, what, tm.Div, tm.TilePH), r)
    IN  IF h1.fault # "" THEN h1 ELSE ZoomLoop(h1, what, k + 1, total)

\* h0 is the heap with the history of the call already noted
ZoomRequest(h0, what) ==
    LET total == GridTotal(what, tm.Div)
    IN  /\ LastWhat' = what
        /\ Tiles' = Tiles
        /\ IF total > Cap(tm.Div)
           THEN /\ TilesLen' = 0
                /\ Install([h0 EXCEPT !.fault = "Total amount of tiles required exceeds total amount of tiles available"])
           ELSE /\ TilesLen' = total
                /\ Install(ZoomLoop(h0, what, 0, total))

-----------------------------------------------------------------------------
(* TileManager.MoveRequest *)

\* first loop: keep the tiles that overlap what, Reset and swap out the rest
RECURSIVE MoveScan(_, _, _, _, _)
MoveScan(h, arr, len, i, what) ==
    IF i >= len \/ h.fault # "" THEN [h |-> h, arr |-> arr, len |-> len] ELSE
    LET t == arr[i + 1]
    IN  IF overlaps(h.tile[t].What, what)
        THEN MoveScan([h EXCEPT !.tile[t].X = PixX(h.tile[t].What, what, tm.Div, tm.TilePW),
                                !.tile[t].Y = PixY(h.tile[t].What, what, tm.Div, tm.TilePH)],
                      arr, len, i + 1, what)
        ELSE LET last == len - 1
             IN  MoveScan(TileReset(h, t),
                          [arr EXCEPT ![i + 1] = arr[last + 1], ![last + 1] = arr[i + 1]],
                          last, i, what)

\* second loop: Request on Tiles[i] for every cell that does not overlap LastWhat
RECURSIVE MoveLoop(_, _, _, _, _, _)
MoveLoop(h, arr, what, k, total, i) ==
    IF k >= total THEN [h |-> h, i |-> i] ELSE
    LET r == GridCell(what, tm.Div, k)
    IN  IF ~overlaps(r, LastWhat)
        THEN MoveLoop(IF i >= total
                      THEN h    \* "missing free tiles" is printed
                      ELSE TileRequest(h, arr[i + 1], PixX(r, what, tm.Div, tm.TilePW),
                                       PixY(r, what, tm.Div, tm.TilePH), r),
                      arr, what, k + 1, total, i + 1)
        ELSE MoveLoop(h, arr, what, k + 1, total, i)

\* the new tiles taken from the start of the array
FirstFreeZero(len) == 0

\* "i := len(self.Tiles)": the new tiles go behind the len tiles that were kept
FirstFree(len) == len

\* h0 is the heap with the history of the call already noted
MoveRequest(h0, what) ==
    \E s1 \in {MoveScan(h0, Tiles, TilesLen, 0, what)} :
    \E s2 \in {MoveLoop(s1.h, s1.arr, what, 0, GridTotal(what, tm.Div), FirstFree(s1.len))} :
    LET total == GridTotal(what, tm.Div)
    IN  /\ Tiles' = s1.arr
        /\ IF s1.h.fault # ""
           THEN /\ TilesLen' = s1.len
                /\ LastWhat' = LastWhat
                /\ Install(s1.h)
                /\ ev' = [t |-> "move", evs |-> <<>>, what |-> what, cleared |-> Cleared,
                          kept |-> {}, requested |-> {}, i |-> 0,
                          reset |-> {s1.arr[j] : j \in (s1.len + 1)..TilesLen}]
           ELSE IF total > Cap(tm.Div)
           THEN /\ TilesLen' = s1.len
                /\ LastWhat' = LastWhat
                /\ Install([s1.h EXCEPT !.fault = "Total amount of tiles required exceeds total amount of tiles available"])
                /\ ev' = [t |-> "move", evs |-> <<>>, what |-> what, cleared |-> Cleared,
                          kept |-> {}, requested |-> {}, i |-> 0,
                          reset |-> {s1.arr[j] : j \in (s1.len + 1)..TilesLen}]
           ELSE /\ TilesLen' = total
                /\ LastWhat' = IF s2.h.fault # "" THEN LastWhat ELSE what
                /\ Install(s2.h)
                /\ ev' = [t |-> "move", evs |-> <<>>, what |-> what, cleared |-> Cleared,
                          kept |-> {s1.arr[j] : j \in 1..s1.len},
                          requested |-> {s1.arr[j] : j \in (s1.len + 1)..(IF s2.i < total THEN s2.i ELSE total)},
                          i |-> s2.i,
                          reset |-> {s1.arr[j] : j \in (s1.len + 1)..TilesLen}]

-----------------------------------------------------------------------------
(* The user's gestures, as main() turns them into requests *)

\* rectFromSelection, for the points (x1, y1), (x2, y2)
rectFromSelection(x1, y1, x2, y2, scrw, scrh, cur) ==
    LET minX0 == IF x1 < x2 THEN x1 ELSE x2
        maxX0 == IF x1 > x2 THEN x1 ELSE x2
        minY0 == IF y1 < y2 THEN y1 ELSE y2
        maxY0 == IF y1 > y2 THEN y1 ELSE y2
        cw == maxX0 - minX0
        ch == maxY0 - minY0
        minX == IF cw < ch THEN minX0 - (ch - cw) \div 2 ELSE minX0
        maxX == IF cw < ch THEN maxX0 + (ch - cw) \div 2 ELSE maxX0
        minY == IF ch < cw THEN minY0 - (cw - ch) \div 2 ELSE minY0
        maxY == IF ch < cw THEN maxY0 + (cw - ch) \div 2 ELSE maxY0
    IN  [X |-> Trunc(minX * cur.W, scrw) + cur.X,
         Y |-> Trunc(minY * cur.H, scrh) + cur.Y,
         W |-> ((maxX - minX) * cur.W) \div scrw,
         H |-> ((maxY - minY) * cur.H) \div scrh]

\* moveRectBy, for the pixel distance (dx, dy) = e - s
moveRectBy(what, dx, dy, w, h) ==
    LET r == [X |-> what.X + Trunc(dx * what.W, w), Y |-> what.Y + Trunc(dy * what.H, h),
              W |-> what.W, H |-> what.H]
    IN  IF r.X < Origin \/ r.Y < Origin
           \/ (r.X + r.W) > Origin + HomeW(tm.Div) \/ (r.Y + r.H) > Origin + HomeW(tm.Div)
        THEN what ELSE r

\* the selections the user drags, in eighths of the window:
\* the whole window, its top-left quarter, an inner square, a strip on the left edge
Selections == {<<0, 0, 8, 8>>, <<0, 0, 4, 4>>, <<1, 1, 5, 5>>, <<0, 0, 2, 4>>}
\* the distances the user pans by, in eighths of the window
MoveDeltas == {<<0, 0>>, <<1, 0>>, <<-1, 0>>, <<-2, 0>>, <<4, 0>>, <<-4, 0>>, <<0, 1>>, <<0, 5>>}

\* the model's unit represents r exactly
Representable(r) ==
    /\ r.W > 0 /\ r.H > 0
    /\ r.W % (8 * tm.Div) = 0 /\ r.H % (8 * tm.Div) = 0

-----------------------------------------------------------------------------
(* Construction *)

\* NewTile
NewTile(div) ==
    [CurrentLOD |-> -1, What |-> ZeroRect(div), X |-> 0, Y |-> 0, Discarder |-> Nil,
     Enqueued |-> FALSE]

\* NewTileManager(w, h) with *tilesDiv = div
NewTileManager(w, h, div) ==
    [Div |-> div, W |-> w, H |-> h, TilePW |-> w \div div, TilePH |-> h \div div]

\* the goroutine started by mandelbrotService has not reached "<-in" yet
GorIdle(pc) == [pc |-> pc, req |-> NoRequest, y |-> 0, data |-> "none"]

\* gomandel.go: mandelbrot(), the goroutine it starts, numbered n
mandelbrot(n) == [pc |-> "run", y |-> 0, data |-> "none", n |-> n]

\* gomandel.go, main() at "data := <-result", the first render started
InitImage ==
    /\ mainpc = "first"
    /\ result = TRUE
    /\ render = mandelbrot(1)
    /\ tex = 0
    /\ dndDragging = FALSE

InitWith(w, h, div) ==
    /\ InitImage
    /\ tm = NewTileManager(w, h, div)
    /\ Tiles = [i \in 1..Cap(div) |-> i]
    /\ TilesLen = 0
    /\ LastWhat = ZeroRect(div)
    /\ tile = [t \in 1..Cap(div) |-> NewTile(div)]
    /\ chans = <<>>
    /\ Queue = <<>>
    /\ Services = [s \in 1..NumWorkers |-> [Tile |-> Nil, LastRequest |-> NoRequest]]
    /\ gor = [s \in 1..NumWorkers |-> GorIdle("loop")]
    /\ fpc = [pc |-> "start", k |-> 0, e |-> NoElem]
    /\ fault = ""
    /\ hist = [wasSet |-> {}, born |-> <<>>, enq |-> 0, zooms |-> 0, moves |-> 0,
               last |-> "none", rezoom |-> FALSE, disp |-> 0]
    /\ ev = NoEv

Init == InitWith(SmallScreen, SmallScreen, SmallDiv)

-----------------------------------------------------------------------------
(* The worker goroutines: mandelbrotService and mandelbrotProcessRequest *)

\* the goroutine has received req from in and enters mandelbrotProcessRequest
GorStart(req) ==
    IF req.Height = 0
    THEN [pc |-> "send", req |-> req, y |-> 0, data |-> "buf"]
    ELSE [pc |-> "run", req |-> req, y |-> 0, data |-> "none"]

\* the loop over y ending one row early
ProcessRowEarly(g, tok) ==
    IF tok THEN [g EXCEPT !.pc = "send", !.y = @ + 1, !.data = "nil"]
    ELSE IF g.y + 1 < g.req.Height - 1 THEN [g EXCEPT !.y = @ + 1]
    ELSE [g EXCEPT !.pc = "send", !.y = @ + 1, !.data = "buf"]

\* the loop over y looking at req.Discarder only after the last scanline
ProcessRowNoPoll(g, tok) ==
    IF g.y + 1 < g.req.Height THEN [g EXCEPT !.y = @ + 1]
    ELSE [g EXCEPT !.pc = "send", !.y = @ + 1, !.data = IF tok THEN "nil" ELSE "buf"]

\* one pass of the loop over y: the scanline, then the poll of req.Discarder
\* (tok: the poll received a token)
ProcessRow(g, tok) ==
    IF tok THEN [g EXCEPT !.pc = "send", !.y = @ + 1, !.data = "nil"]
    ELSE IF g.y + 1 < g.req.Height THEN [g EXCEPT !.y = @ + 1]
    ELSE [g EXCEPT !.pc = "send", !.y = @ + 1, !.data = "buf"]

WorkerRow(w) ==
    /\ fault = ""
    /\ gor[w].pc = "run"
    /\ LET d == gor[w].req.Discarder
       IN  /\ gor' = [gor EXCEPT ![w] = ProcessRow(gor[w], chans[d])]
           /\ chans' = [chans EXCEPT ![d] = FALSE]
    /\ ev' = NoEv
    /\ UNCHANGED <<tm, Tiles, TilesLen, LastWhat, tile, Queue, Services, fpc, fault, hist>>
    /\ UNCHANGED imgvars

\* after "out <- ..." was received, the goroutine loops back to "request := <-in"
WorkerLoop(w) ==
    /\ fault = ""
    /\ gor[w].pc = "loop"
    /\ gor' = [gor EXCEPT ![w].pc = "recv"]
    /\ ev' = NoEv
    /\ UNCHANGED <<tm, Tiles, TilesLen, LastWhat, tile, chans, Queue, Services, fpc, fault, hist>>
    /\ UNCHANGED imgvars

-----------------------------------------------------------------------------
(* MandelbrotService and MandelbrotQueue.Update, on the frame-loop thread.  *)
(* The thread runs Update without a pause up to the one place where it can  *)
(* wait: the send on a service's unbuffered In channel.  u is the state a   *)
(* tick works on: the heap plus Services, gor, fpc and evs, the events of   *)
(* the tick so far.                                                         *)

Tick == [tile |-> tile, chans |-> chans, Queue |-> Queue, fault |-> fault, hist |-> hist,
         Services |-> Services, gor |-> gor, fpc |-> fpc, evs |-> <<>>]

Busy(u, s) == u.Services[s].Tile # Nil

\* MandelbrotService.Done that does not poll LastRequest.Discarder
DoneNoPoll(u, s) ==
    IF u.gor[s].pc # "send"
    THEN [ok |-> FALSE, token |-> FALSE, data |-> "nil", tile |-> Nil]
    ELSE [ok |-> TRUE, token |-> FALSE, data |-> u.gor[s].data, tile |-> u.Services[s].Tile]

\* MandelbrotService.Done on service s: ok (a value was received from Out),
\* token (the poll of LastRequest.Discarder received one), and the pair returned
Done(u, s) ==
    IF u.gor[s].pc # "send"
    THEN [ok |-> FALSE, token |-> FALSE, data |-> "nil", tile |-> Nil]
    ELSE IF u.chans[u.Services[s].LastRequest.Discarder]
    THEN [ok |-> TRUE, token |-> TRUE, data |-> "nil", tile |-> Nil]
    ELSE [ok |-> TRUE, token |-> FALSE, data |-> u.gor[s].data, tile |-> u.Services[s].Tile]

\* Update, first loop, one pass: s.Done() and tile.ApplyData(data)
PollService(u, k) ==
    LET r  == Done(u, k)
        rq == u.Services[k].LastRequest
        d  == rq.Discarder
        u1 == IF r.ok
              THEN [u EXCEPT !.gor[k] = GorIdle("loop"), !.Services[k].Tile = Nil]
              ELSE u
        u2 == IF r.token THEN [u1 EXCEPT !.chans[d] = FALSE] ELSE u1
    IN  IF r.data # "nil"
        THEN [TileApplyData(u2, r.tile) EXCEPT
                 !.evs = Append(@, [t |-> "apply", svc |-> k, tile |-> r.tile, chan |-> d,
                                    seq |-> rq.seq, lod |-> u.tile[r.tile].CurrentLOD,
                                    stale |-> d \in u.hist.wasSet,
                                    bytes |-> u.gor[k].req.Width * u.gor[k].req.Height * 4,
                                    width |-> rq.Width, height |-> rq.Height,
                                    rows |-> u.gor[k].y])]
        ELSE IF r.ok
        THEN [u2 EXCEPT !.evs = Append(@, [t |-> IF r.token THEN "discarded" ELSE "nildata",
                                           svc |-> k, chan |-> d, seq |-> rq.seq,
                                           data |-> u.gor[k].data, height |-> rq.Height,
                                           rows |-> u.gor[k].y])]
        ELSE u2

RECURSIVE PollLoop(_, _)
PollLoop(u, k) ==
    IF k > NumWorkers \/ u.fault # "" THEN u ELSE PollLoop(PollService(u, k), k + 1)

\* FreeService that reports no service while a single entry is queued
FreeServiceLeavesLast(u) ==
    IF Len(u.Queue) <= 1 THEN Nil
    ELSE IF \E s \in 1..NumWorkers : ~Busy(u, s)
    THEN CHOOSE s \in 1..NumWorkers : ~Busy(u, s) /\ \A s2 \in 1..(s - 1) : Busy(u, s2)
    ELSE Nil

\* MandelbrotQueue.FreeService: the first non-busy service, or Nil
FreeService(u) ==
    IF Len(u.Queue) = 0 THEN Nil
    ELSE IF \E s \in 1..NumWorkers : ~Busy(u, s)
    THEN CHOOSE s \in 1..NumWorkers : ~Busy(u, s) /\ \A s2 \in 1..(s - 1) : Busy(u, s2)
    ELSE Nil

\* the newest element instead of the oldest
QueueBack(q) == q[Len(q)]

\* the element Update pops, and what it leaves
QueueFront(q) == Head(q)
QueueRemoveFront(q) == Tail(q)

\* MandelbrotService.Request once the goroutine has received "self.In <- req"
Handoff(u, s, e, waited) ==
    [u EXCEPT !.gor[s] = GorStart(e.Request),
              !.Services[s] = [Tile |-> e.Tile, LastRequest |-> e.Request],
              !.fpc = [pc |-> "dispatch", k |-> 0, e |-> NoElem],
              !.hist.disp = e.Request.seq,
              !.evs = Append(@, [t |-> "dispatch", svc |-> s, seq |-> e.Request.seq,
                                 chan |-> e.Request.Discarder, tile |-> e.Tile,
                                 waited |-> waited])]

InstallTick(u) ==
    /\ Install(u)
    /\ Services' = u.Services
    /\ gor' = u.gor
    /\ fpc' = u.fpc
    /\ ev' = IF u.evs = <<>> THEN NoEv ELSE [t |-> "update", evs |-> u.evs]

\* the poll of the popped entry's Discarder that never receives
PollDiscarderNever(u, d) == FALSE

\* "_, ok := <-e.Request.Discarder": ok
PollDiscarder(u, d) == u.chans[d]

\* Update, second loop, up to its end or to a send that has to wait
RECURSIVE DispatchLoop(_)
DispatchLoop(u) ==
    LET s == FreeService(u)
        e == QueueFront(u.Queue)
        d == e.Request.Discarder
        u1 == [u EXCEPT !.Queue = QueueRemoveFront(@)]
    IN  IF u.fault # "" THEN InstallTick(u)
        ELSE IF s = Nil THEN InstallTick([u EXCEPT !.fpc = [pc |-> "idle", k |-> 0, e |-> NoElem]])
        ELSE IF PollDiscarder(u, d)
        THEN \E u2 \in {[u1 EXCEPT !.chans[d] = FALSE,
                                   !.evs = Append(@, [t |-> "dropped", seq |-> e.Request.seq,
                                                      chan |-> d])]} :
                DispatchLoop(u2)
        ELSE IF u.gor[s].pc = "recv"
        THEN \E u2 \in {Handoff(u1, s, e, FALSE)} : DispatchLoop(u2)
        ELSE InstallTick([u1 EXCEPT !.fpc = [pc |-> "send", k |-> s, e |-> e]])

\* tm.Update(): MandelbrotQueue.Update from its first statement
Update ==
    /\ fault = ""
    /\ fpc.pc = "idle"
    /\ \E u0 \in {Tick} : \E u \in {PollLoop(u0, 1)} : DispatchLoop(u)
    /\ UNCHANGED <<tm, Tiles, TilesLen, LastWhat>>
    /\ UNCHANGED imgvars

\* the send on In completes when the goroutine arrives at "<-in"; Update goes on
UpdateSend ==
    /\ fault = ""
    /\ fpc.pc = "send"
    /\ gor[fpc.k].pc = "recv"
    /\ \E u0 \in {Tick} : \E u \in {Handoff(u0, fpc.k, fpc.e, TRUE)} : DispatchLoop(u)
    /\ UNCHANGED <<tm, Tiles, TilesLen, LastWhat>>
    /\ UNCHANGED imgvars

-----------------------------------------------------------------------------
(* main(): the start-up request and the event loop *)

NoteZoom(what) ==
    [Heap EXCEPT !.hist.zooms = @ + 1, !.hist.last = "zoom",
                 !.hist.rezoom = (hist.last = "zoom" /\ LastWhat = what)]
NoteMove ==
    [Heap EXCEPT !.hist.moves = @ + 1, !.hist.last = "move", !.hist.rezoom = FALSE]

\* tm.ZoomRequest(&rect) before the loop
MainStart ==
    /\ fault = ""
    /\ fpc.pc = "start"
    /\ ZoomRequest(NoteZoom(Home(tm.Div)), Home(tm.Div))
    /\ fpc' = [pc |-> "idle", k |-> 0, e |-> NoElem]
    /\ ev' = [t |-> "zoom", evs |-> <<>>, what |-> Home(tm.Div), cleared |-> Cleared]
    /\ UNCHANGED <<tm, Services, gor>>
    /\ UNCHANGED imgvars

\* button 1 released after a selection, or button 2 released
UserZoom ==
    /\ fault = ""
    /\ fpc.pc = "idle"
    /\ hist.zooms <= MaxZoom
    /\ \E what \in {Home(tm.Div)} \cup
                   {rectFromSelection((p[1] * tm.W) \div 8, (p[2] * tm.H) \div 8,
                                      (p[3] * tm.W) \div 8, (p[4] * tm.H) \div 8,
                                      tm.W, tm.H, LastWhat) : p \in Selections} :
          /\ Representable(what)
          /\ ZoomRequest(NoteZoom(what), what)
          /\ ev' = [t |-> "zoom", evs |-> <<>>, what |-> what, cleared |-> Cleared]
    /\ UNCHANGED <<tm, Services, gor, fpc>>
    /\ UNCHANGED imgvars

\* mouse motion with button 3 held
UserMove ==
    /\ fault = ""
    /\ fpc.pc = "idle"
    /\ hist.moves < MaxMove
    /\ \E p \in MoveDeltas :
          MoveRequest(NoteMove, moveRectBy(LastWhat, (p[1] * tm.W) \div 8, (p[2] * tm.H) \div 8,
                                           tm.W, tm.H))
    /\ UNCHANGED <<tm, Services, gor, fpc>>
    /\ UNCHANGED imgvars

Next ==
    \/ MainStart
    \/ UserZoom
    \/ UserMove
    \/ Update
    \/ UpdateSend
    \/ \E w \in 1..NumWorkers : WorkerRow(w)
    \/ \E w \in 1..NumWorkers : WorkerLoop(w)

Spec == Init /\ [][Next]_vars

\* the frame loop calls Update every frame and the Go scheduler runs every goroutine
Fairness ==
    /\ WF_vars(Update)
    /\ WF_vars(UpdateSend)
    /\ \A w \in 1..NumWorkers : WF_vars(WorkerRow(w)) /\ WF_vars(WorkerLoop(w))

LiveSpec == Init /\ [][Next]_vars /\ Fairness

\* the program with its default flags (-t 8, a 512 x 512 window) and no user input
InitDefault == InitWith(FullScreen, FullScreen, DefaultDiv)

NextDefault ==
    \/ MainStart
    \/ Update
    \/ UpdateSend
    \/ \E w \in 1..NumWorkers : WorkerRow(w)
    \/ \E w \in 1..NumWorkers : WorkerLoop(w)

SpecDefault == InitDefault /\ [][NextDefault]_vars

-----------------------------------------------------------------------------
(* The single-image program, src/gomandel.go.  discarder and result are    *)
(* unbuffered: a send waits for a receive, and the non-blocking receive of *)
(* the goroutine's poll gets a value only when a sender is waiting.        *)

\* the goroutine, one pass of the loop over y: the scanline, then the poll of
\* discard, which receives iff main waits in "discarder <- true"
RenderRow ==
    /\ render.pc = "run"
    /\ IF mainpc = "discard"
       THEN /\ render' = [render EXCEPT !.pc = "send", !.y = @ + 1, !.data = "nil"]
            /\ mainpc' = "wait"
       ELSE /\ render' = IF render.y + 1 < ImageRows
                         THEN [render EXCEPT !.y = @ + 1]
                         ELSE [render EXCEPT !.pc = "send", !.y = @ + 1, !.data = "buf"]
            /\ mainpc' = mainpc
    /\ UNCHANGED <<result, tex, dndDragging>>
    /\ UNCHANGED tilevars

\* "data := <-result" before the loop, the upload, "result = nil"
MainFirst ==
    /\ mainpc = "first"
    /\ render.pc = "send"
    /\ tex' = render.n
    /\ render' = [render EXCEPT !.pc = "exit"]
    /\ result' = FALSE
    /\ mainpc' = "loop"
    /\ UNCHANGED dndDragging
    /\ UNCHANGED tilevars

\* MOUSEBUTTONDOWN
ButtonDown ==
    /\ mainpc = "loop"
    /\ ~dndDragging
    /\ dndDragging' = TRUE
    /\ UNCHANGED <<mainpc, result, render, tex>>
    /\ UNCHANGED tilevars

\* MOUSEBUTTONUP: with a render pending main goes to "discarder <- true",
\* otherwise straight to "result = mandelbrot(...)"
ButtonUp ==
    /\ mainpc = "loop"
    /\ dndDragging
    /\ render.n < MaxRenders
    /\ dndDragging' = FALSE
    /\ IF result
       THEN mainpc' = "discard" /\ UNCHANGED <<result, render>>
       ELSE mainpc' = mainpc /\ result' = TRUE /\ render' = mandelbrot(render.n + 1)
    /\ UNCHANGED tex
    /\ UNCHANGED tilevars

\* "<-result" after the discard, then "result = mandelbrot(...)"
MainWait ==
    /\ mainpc = "wait"
    /\ render.pc = "send"
    /\ render' = mandelbrot(render.n + 1)
    /\ result' = TRUE
    /\ mainpc' = "loop"
    /\ UNCHANGED <<tex, dndDragging>>
    /\ UNCHANGED tilevars

\* "data, ok := <-result" of the frame, when it receives
MainPoll ==
    /\ mainpc = "loop"
    /\ result
    /\ render.pc = "send"
    /\ tex' = render.n
    /\ render' = [render EXCEPT !.pc = "exit"]
    /\ result' = FALSE
    /\ UNCHANGED <<mainpc, dndDragging>>
    /\ UNCHANGED tilevars

NextImage ==
    \/ RenderRow
    \/ MainFirst
    \/ ButtonDown
    \/ ButtonUp
    \/ MainWait
    \/ MainPoll

\* the scheduler runs the goroutine and the main thread; the user need not act
FairImage ==
    /\ WF_vars(RenderRow)
    /\ WF_vars(MainFirst)
    /\ WF_vars(MainWait)
    /\ WF_vars(MainPoll)

SpecImage == Init /\ [][NextImage]_vars /\ FairImage

-----------------------------------------------------------------------------
(* Properties *)

\* the events of kind k the last step noted
Events(k) == {ev.evs[i] : i \in {j \in DOMAIN ev.evs : ev.evs[j].t = k}}

\* the requests that are queued, being sent to or held by a service, with their tile
Outstanding ==
    {[Request |-> Queue[i].Request, Tile |-> Queue[i].Tile] : i \in DOMAIN Queue}
    \cup {[Request |-> Services[s].LastRequest, Tile |-> Services[s].Tile] :
             s \in {x \in DOMAIN Services : Services[x].Tile # Nil}}
    \cup (IF fpc.pc = "send" THEN {fpc.e} ELSE {})

Cancelled(r) == r.Discarder \in hist.wasSet

\* C1: a buffer whose request's cancel token has been set is never passed to
\* Tile.ApplyData, wherever the request was when the token was set.
C1_NoStaleApply == \A a \in Events("apply") : ~a.stale

\* C1 witness: the token was set after the worker had finished the buffer, and Done
\* dropped that buffer; in the same run a queued request was dropped too
C1_Witness ==
    /\ \E a \in Events("discarded") : a.data = "buf"
    /\ \E a \in Events("dropped") : TRUE

\* C2: requests are handed to workers in the order they were enqueued: whatever is
\* still queued was enqueued after the last request dispatched, and the dispatches
\* of one tick are in enqueue order.
C2_FifoDispatch ==
    /\ \A i \in DOMAIN Queue : Queue[i].Request.seq > hist.disp
    /\ \A i \in DOMAIN Queue : \A j \in DOMAIN Queue :
          i < j => Queue[i].Request.seq < Queue[j].Request.seq
    /\ fpc.pc = "send" => fpc.e.Request.seq > hist.disp
    /\ \A i \in DOMAIN ev.evs : \A j \in DOMAIN ev.evs :
          (i < j /\ ev.evs[i].t = "dispatch" /\ ev.evs[j].t = "dispatch")
             => ev.evs[i].seq < ev.evs[j].seq

\* C2 witness: one tick dropped cancelled entries, dispatched the entry behind them
\* and left later ones queued
C2_Witness ==
    /\ Events("dropped") # {}
    /\ \E a \in Events("dispatch") : \E b \in Events("dropped") : b.seq < a.seq
    /\ Len(Queue) >= 2

\* C3: a step changes a tile's CurrentLOD only from -1 to 0, from 0 to 1, or to -1,
\* and to -1 only in a ZoomRequest or MoveRequest (Tile.Reset / Tile.Request).
C3_LodSteps ==
    [][\A t \in DOMAIN tile :
          tile'[t].CurrentLOD # tile[t].CurrentLOD =>
             \/ tile[t].CurrentLOD = -1 /\ tile'[t].CurrentLOD = 0 /\ ev'.t = "update"
             \/ tile[t].CurrentLOD = 0 /\ tile'[t].CurrentLOD = 1 /\ ev'.t = "update"
             \/ tile'[t].CurrentLOD = -1 /\ ev'.t \in {"zoom", "move"}]_vars

\* C3 witness: a request has just returned a Final tile and a Preview tile to Empty
C3_Witness ==
    /\ ev.t \in {"zoom", "move"}
    /\ 1 \in ev.cleared
    /\ 0 \in ev.cleared

\* C4: Tile.ApplyData is never called on a tile whose CurrentLOD is Final.
C4_NoApplyOnFinal ==
    /\ fault # "unreachable"
    /\ \A a \in Events("apply") : a.lod \in {-1, 0}

\* C4 witness: after the user's zoom and pan, a final buffer is applied to a tile
\* while that tile's earlier, discarded requests are behind it
C4_Witness ==
    /\ hist.zooms >= 2 /\ hist.moves >= 1
    /\ \E a \in Events("apply") : a.lod = 0 /\ tile[a.tile].CurrentLOD = 1

\* C5: every tile object has at most one request that is outstanding and whose
\* token has not been set.
C5_OneLiveRequest ==
    \A t \in DOMAIN tile :
       Cardinality({o \in Outstanding : o.Tile = t /\ ~Cancelled(o.Request)}) <= 1

\* C5 witness: a tile with two outstanding requests, one of them cancelled, and a
\* tile outside the current tile set with a live request
C5_Witness ==
    /\ \E t \in DOMAIN tile :
          /\ Cardinality({o \in Outstanding : o.Tile = t}) >= 2
          /\ Cardinality({o \in Outstanding : o.Tile = t /\ ~Cancelled(o.Request)}) = 1
    /\ \E i \in (TilesLen + 1)..Len(Tiles) :
          \E o \in Outstanding : o.Tile = Tiles[i] /\ ~Cancelled(o.Request)

\* the tiles Tile.Request was called on by the request that has just returned
Requested ==
    {t \in DOMAIN tile : tile[t].Discarder # Nil /\ hist.born[tile[t].Discarder] = OpNo(Heap)}

\* C6 as stated: ZoomRequest on the home viewport with divisor 8 requests exactly
\* 64 tiles and leaves a tile set of length 64.
C6_Home64 ==
    (ev.t = "zoom" /\ tm.Div = 8 /\ LastWhat = Home(tm.Div))
       => TilesLen = 64 /\ Cardinality(Requested) = 64

\* C6 amended: ZoomRequest on the home viewport with divisor 8 requests exactly 81
\* tiles, a 9 x 9 grid, and leaves a tile set of length 81; 64 of them overlap the
\* viewport, the other 17 only touch its right and bottom edges.
C6_Home81 ==
    (ev.t = "zoom" /\ tm.Div = 8 /\ LastWhat = Home(tm.Div))
       => /\ TilesLen = 81
          /\ Cardinality(Requested) = 81
          /\ Len(Queue) = 81
          /\ Cardinality({i \in 1..TilesLen : overlaps(tile[Tiles[i]].What, LastWhat)}) = 64

\* C6 witness: the start-up ZoomRequest on the home viewport has just returned
C6_Witness ==
    /\ ev.t = "zoom" /\ tm.Div = 8 /\ ev.what = Home(tm.Div)
    /\ \A i \in 1..TilesLen : tile[Tiles[i]].Enqueued

\* every tile of the current set is Final and idle, the queue is empty, no service busy
Settled ==
    /\ \A i \in 1..TilesLen : tile[Tiles[i]].CurrentLOD = 1 /\ ~tile[Tiles[i]].Enqueued
    /\ Queue = <<>>
    /\ \A s \in DOMAIN Services : Services[s].Tile = Nil
    /\ fpc.pc = "idle"

\* C7: in every fair run in which a ZoomRequest is the last request made, from some
\* point on every tile of the current set is Final with Enqueued false, the queue
\* is empty and every worker is idle.
C7_ZoomSettles == <>[](hist.last = "zoom") => <>[]Settled

\* C7 witness: all is settled after the user's own ZoomRequest to a smaller grid
C7_Witness ==
    /\ Settled /\ hist.last = "zoom" /\ hist.zooms >= 2
    /\ TilesLen < Cap(tm.Div)

\* C8 as stated: when ZoomRequest returns, every request that was queued or in
\* flight before the call has had its cancel token set.
C8_ZoomCancelsAll ==
    [][ev'.t = "zoom" => \A o \in Outstanding : o.Request.Discarder \in hist'.wasSet]_vars

\* C9: when ZoomRequest is called again with the region of the ZoomRequest before
\* it, the tile set keeps its length and its regions, every tile of the set gets a
\* fresh preview request, and from then on no buffer of a request the first call
\* issued is applied.
C9_Rezoom ==
    /\ [][(ev'.t = "zoom" /\ hist'.rezoom) =>
             /\ TilesLen' = TilesLen
             /\ \A i \in 1..TilesLen' :
                   LET t == Tiles'[i]
                   IN  /\ tile'[t].What = tile[Tiles[i]].What
                       /\ tile'[t].CurrentLOD = -1 /\ tile'[t].Enqueued
                       /\ tile'[t].Discarder > Len(chans)
                       /\ \E j \in DOMAIN Queue' :
                             /\ Queue'[j].Tile = t
                             /\ Queue'[j].Request.Discarder = tile'[t].Discarder
                             /\ Queue'[j].Request.Height = TileSH
                             /\ Queue'[j].Request.seq > hist.enq]_vars
    /\ [](hist.rezoom => \A a \in Events("apply") : hist.born[a.chan] # OpNo(Heap) - 1)

\* C9 witness: the second call came when a worker had finished a buffer for the
\* first call; Done has just dropped that buffer, the tile waits for its new request
C9_Witness ==
    /\ hist.rezoom
    /\ \E a \in Events("discarded") :
          /\ a.data = "buf"
          /\ hist.born[a.chan] = OpNo(Heap) - 1
          /\ \E i \in 1..TilesLen :
                /\ tile[Tiles[i]].CurrentLOD = -1
                /\ \E j \in DOMAIN Queue : Queue[j].Tile = Tiles[i]
                                           /\ Queue[j].Request.What = Services[a.svc].LastRequest.What

\* C10: MoveRequest(what) changes nothing but X and Y in a tile of the set whose
\* region overlaps what: What, CurrentLOD, Enqueued and Discarder stay, its token is
\* not set, and no request is enqueued for it.
C10_MoveKeeps ==
    [][ev'.t = "move" =>
          \A i \in 1..TilesLen :
             LET t == Tiles[i]
                 d == tile[t].Discarder
             IN  overlaps(tile[t].What, ev'.what) =>
                    /\ tile'[t].What = tile[t].What
                    /\ tile'[t].CurrentLOD = tile[t].CurrentLOD
                    /\ tile'[t].Enqueued = tile[t].Enqueued
                    /\ tile'[t].Discarder = d
                    /\ d # Nil => (chans'[d] = chans[d] /\ (d \in hist'.wasSet <=> d \in hist.wasSet))
                    /\ \A j \in DOMAIN Queue' :
                          Queue'[j].Tile = t => Queue'[j].Request.seq <= hist.enq]_vars

\* C10 witness: a MoveRequest kept a tile whose request is still pending and a tile
\* that is Final, moved a kept tile on the screen, and requested new tiles
C10_Witness ==
    /\ ev.t = "move"
    /\ ev.requested # {}
    /\ \E t \in ev.kept : tile[t].Enqueued /\ ~chans[tile[t].Discarder]
    /\ \E t \in ev.kept : tile[t].CurrentLOD = 1
    /\ \E t \in ev.kept : tile[t].X # 0 /\ overlaps(tile[t].What, ev.what)

\* the cells of the grid of viewport what, as regions
GridCells(what) == {GridCell(what, tm.Div, k) : k \in 0..(GridTotal(what, tm.Div) - 1)}

\* C11 as stated: MoveRequest calls Tile.Request for no cell whose region is that
\* of a tile the overlap pass kept, and calls it exactly once for every cell that
\* overlaps the new region and has no kept tile.
C11_MoveRequestsExactly ==
    (ev.t = "move" /\ fault = "") =>
       /\ \A t \in ev.requested : \A k \in ev.kept : tile[t].What # tile[k].What
       /\ \A r \in GridCells(ev.what) :
             (overlaps(r, ev.what) /\ ~\E k \in ev.kept : tile[k].What = r)
                => Cardinality({t \in ev.requested : tile[t].What = r}) = 1

\* Done on service s has just returned the finished buffer of the request the
\* service held: all its rows, Width * Height * 4 bytes, with the tile it was
\* dispatched for, and the service is idle
Completed(s) ==
    /\ Services[s].Tile = Nil
    /\ \E a \in Events("apply") :
          /\ a.svc = s
          /\ a.rows = a.height /\ a.bytes = a.width * a.height * 4
          /\ a.width \in {TileSW, TileW} /\ a.height \in {TileSH, TileH}
          /\ a.seq = Services[s].LastRequest.seq
          /\ tile[a.tile].Discarder = a.chan

\* C12: a service that holds a request whose token is never set eventually gets,
\* from Done, the non-nil buffer of Width * Height * 4 bytes and the owning tile,
\* and is then idle; and Done hands over nothing else for such a request.
C12_WorkerCompletes ==
    /\ \A s \in 1..NumWorkers :
          (Services[s].Tile # Nil /\ ~Cancelled(Services[s].LastRequest))
             ~> (Completed(s) \/ (Services[s].Tile # Nil /\ Cancelled(Services[s].LastRequest)))
    /\ [](\A a \in Events("discarded") \cup Events("nildata") : a.chan \in hist.wasSet)
    /\ [](\A a \in Events("apply") : a.svc \in 1..NumWorkers => Completed(a.svc))

\* C12 witness: Done has just returned a full-size buffer that took several
\* scanlines, while other requests wait in the queue
C12_Witness ==
    /\ \E s \in 1..NumWorkers : Completed(s)
    /\ \E a \in Events("apply") : a.height = TileH /\ a.rows > 1 /\ a.lod = 0
    /\ Queue # <<>>

\* C13: an entry whose token is set when Update pops it is dropped: it is not
\* handed to a service, no goroutine holds it, and every request that is handed
\* over, or popped and waiting for the send on In, has a token that was never set.
C13_DropCancelled ==
    /\ \A a \in Events("dispatch") : a.chan \notin hist.wasSet
    /\ fpc.pc = "send" => fpc.e.Request.Discarder \notin hist.wasSet
    /\ \A a \in Events("dropped") :
          /\ a.chan \in hist.wasSet
          /\ \A o \in Outstanding : o.Request.seq # a.seq
          /\ \A s \in 1..NumWorkers : gor[s].req.seq # a.seq
    /\ \A s \in 1..NumWorkers :
          gor[s].pc = "run" => gor[s].req = Services[s].LastRequest

\* C13 witness: one tick dropped several cancelled entries from the queue front
\* and handed the first uncancelled one behind them to the free service
C13_Witness ==
    /\ Cardinality(Events("dropped")) >= 2
    /\ \E a \in Events("dispatch") :
          /\ \A b \in Events("dropped") : b.seq < a.seq
          /\ gor[a.svc].pc = "run" /\ gor[a.svc].req.seq = a.seq

\* C14 as stated: Update never waits: the frame-loop thread is never at the send
\* on a service's In channel while that service's goroutine is not at "<-in".
C14_TickNeverBlocks == ~(fpc.pc = "send" /\ gor[fpc.k].pc # "recv")

\* what Tile.Reset on tile t returns with, called in the current state
ResetPost(t) ==
    LET d  == tile[t].Discarder
        h2 == TileReset(Heap, t)
    IN  /\ h2.fault = ""
        /\ h2.tile[t].CurrentLOD = -1 /\ ~h2.tile[t].Enqueued
        /\ h2.Queue = Queue
        /\ IF tile[t].Enqueued
           THEN h2.chans = [chans EXCEPT ![d] = TRUE] /\ d \in h2.hist.wasSet
           ELSE h2.chans = chans /\ h2.hist.wasSet = hist.wasSet

\* C15: when Tile.Reset returns, the token of the tile's pending request is set,
\* Enqueued is false and CurrentLOD is -1, whatever the queue and the workers have
\* seen; without a pending request no token is set.  First for the Reset calls of
\* MoveRequest (on the tiles of the set that do not overlap the new region), then
\* for Reset called on any tile whenever the frame loop may call it.
C15_ResetSynchronous ==
    /\ [][ev'.t = "move" =>
             \A i \in 1..TilesLen :
                LET t == Tiles[i]
                    d == tile[t].Discarder
                IN  ~overlaps(tile[t].What, ev'.what) =>
                       /\ tile[t].Enqueued => (chans'[d] /\ d \in hist'.wasSet)
                       /\ (~tile[t].Enqueued /\ d # Nil) =>
                             (chans'[d] = chans[d] /\ (d \in hist'.wasSet <=> d \in hist.wasSet))
                       /\ tile'[t].CurrentLOD = -1
                       /\ t \notin ev'.requested => (~tile'[t].Enqueued /\ tile'[t].Discarder = d)]_vars
    /\ []((fault = "" /\ fpc.pc = "idle") => \A t \in DOMAIN tile : ResetPost(t))

\* C15 witness: MoveRequest has just Reset a tile whose final-pass request a worker
\* is computing: the token is set and not yet seen by the worker, the tile is Empty
C15_Witness ==
    /\ ev.t = "move"
    /\ \E s \in 1..NumWorkers :
          LET t == Services[s].Tile
              d == Services[s].LastRequest.Discarder
          IN  /\ t \in ev.reset
              /\ gor[s].pc = "run" /\ gor[s].y >= 1 /\ gor[s].req.Height = TileH
              /\ chans[d] /\ d \in hist.wasSet
              /\ tile[t].CurrentLOD = -1

\* C16: no send on a Discarder ever finds the slot full, and a tile that would send
\* (Enqueued is true) holds a channel that never received a token: every channel
\* is sent on at most once.
C16_TokenSetOnce ==
    /\ fault # "discarder send blocks"
    /\ \A t \in DOMAIN tile :
          tile[t].Enqueued => (tile[t].Discarder # Nil /\ tile[t].Discarder \notin hist.wasSet
                               /\ ~chans[tile[t].Discarder])

\* C16 witness: after a zoom and a pan, a tile is pending on a clean channel made
\* by the third request call; the channel of its queued request from the second
\* call holds its token, and a first-call channel had its token set and polled away
C16_Witness ==
    /\ hist.zooms >= 2 /\ hist.moves >= 1
    /\ \E t \in DOMAIN tile :
          /\ tile[t].Enqueued /\ hist.born[tile[t].Discarder] = 3
          /\ \E d1 \in hist.wasSet : \E d2 \in hist.wasSet :
                /\ hist.born[d1] = 1 /\ hist.born[d2] = 2
                /\ \E a \in DOMAIN Queue : Queue[a].Tile = t /\ Queue[a].Request.Discarder = d2
                /\ ~chans[d1] /\ chans[d2]

\* C17 as stated: no two tiles of the current tile set have overlapping or equal
\* regions.
C17_DisjointTiles ==
    \A i \in 1..TilesLen : \A j \in 1..TilesLen :
       i # j => (/\ tile[Tiles[i]].What # tile[Tiles[j]].What
                 /\ ~overlaps(tile[Tiles[i]].What, tile[Tiles[j]].What))

\* C18 as stated: after ZoomRequest(R) or MoveRequest(R) every grid cell that
\* overlaps R is the region of a tile of the current tile set.
C18_SetCoversViewport ==
    (ev.t \in {"zoom", "move"} /\ fault = "") =>
       \A r \in GridCells(ev.what) :
          overlaps(r, ev.what) => \E i \in 1..TilesLen : tile[Tiles[i]].What = r

\* the requests of tile t that were enqueued by the step just taken
NewRequests(t) == {o \in Outstanding' : o.Tile = t /\ o.Request.seq > hist.enq}

\* what ApplyData on an Empty tile does, apart from the new entry's token
PreviewApplied(a) ==
    /\ tile'[a.tile].CurrentLOD = 0
    /\ tile'[a.tile].Enqueued
    /\ tile'[a.tile].Discarder = a.chan
    /\ Cardinality(NewRequests(a.tile)) = 1
    /\ \A o \in NewRequests(a.tile) :
          /\ o.Request.Width = TileW /\ o.Request.Height = TileH
          /\ o.Request.What = tile'[a.tile].What

\* C19 as stated: ApplyData on an Empty tile sets CurrentLOD to 0, leaves Enqueued
\* true and appends one entry for the tile with dimensions W x H and the tile's
\* region, whose cancel token is a new one, not that of the preview request.
C19_FreshToken ==
    [][\A a \in Events("apply")' :
          a.lod = -1 =>
             /\ PreviewApplied(a)
             /\ \A o \in NewRequests(a.tile) : o.Request.Discarder # a.chan]_vars

\* C19 amended: ApplyData on an Empty tile sets CurrentLOD to 0, leaves Enqueued
\* true and appends one entry for the tile with dimensions W x H and the tile's
\* region, which carries the same cancel token as the preview request: the
\* tile's Discarder, and no channel is made.
C19_SameToken ==
    [][\A a \in Events("apply")' :
          a.lod = -1 =>
             /\ PreviewApplied(a)
             /\ \A o \in NewRequests(a.tile) : o.Request.Discarder = a.chan
             /\ Len(chans') = Len(chans)]_vars

\* C19 witness: a preview buffer has just been applied; the tile is in Preview and
\* its full-size request is the last entry of the queue, on the preview's channel
C19_Witness ==
    /\ \E a \in Events("apply") :
          /\ a.lod = -1 /\ tile[a.tile].CurrentLOD = 0 /\ tile[a.tile].Enqueued
          /\ Len(Queue) >= 2
          /\ Queue[Len(Queue)].Tile = a.tile
          /\ Queue[Len(Queue)].Request.Height = TileH
          /\ Queue[Len(Queue)].Request.Discarder = a.chan

\* C20: when the cancel token of the request a worker is computing is set, the
\* token stays in the channel until the worker's next step, and that step finishes
\* the scanline in progress (one more row, never past the last) and returns the
\* nil result instead of computing the remaining rows.
C20_StopsAtNextCheck ==
    [][\A w \in 1..NumWorkers :
          (gor[w].pc = "run" /\ chans[gor[w].req.Discarder]) =>
             \/ gor'[w] = gor[w] /\ chans'[gor[w].req.Discarder]
             \/ /\ gor'[w].pc = "send" /\ gor'[w].data = "nil"
                /\ gor'[w].req = gor[w].req
                /\ gor'[w].y = gor[w].y + 1
                /\ gor'[w].y <= gor[w].req.Height]_vars

\* C20 witness: a worker has returned nil for a full-size request after two of its
\* rows, the token having been set when one row was already computed
C20_Witness ==
    \E w \in 1..NumWorkers :
       /\ gor[w].pc = "send" /\ gor[w].data = "nil"
       /\ gor[w].req.Height = TileH
       /\ gor[w].y = 2 /\ gor[w].y < gor[w].req.Height
       /\ gor[w].req.Discarder \in hist.wasSet

\* a step of MandelbrotQueue.Update that ends with the return of Update
UpdateReturns == (Update \/ UpdateSend) /\ fpc'.pc = "idle"

\* C21: when Update returns, no service is idle while the queue is non-empty.
\* The queue meant is the one at the return, so an entry ApplyData appended
\* during the call is either in a service or waits behind services that are
\* all busy.
C21_NoIdleWithWork ==
    [][UpdateReturns =>
          (Queue' = <<>> \/ \A s \in 1..NumWorkers : Services'[s].Tile # Nil)]_vars

\* C21 witness: Update has returned after handing the full-size request that
\* ApplyData enqueued in this call, the newest entry, to the service whose
\* preview was collected in the same call
C21_Witness ==
    /\ ev.t = "update" /\ fpc.pc = "idle" /\ Queue = <<>>
    /\ \E a \in Events("dispatch") :
          /\ a.seq = hist.enq /\ a.waited
          /\ Services[a.svc].Tile = a.tile
          /\ Services[a.svc].LastRequest.Height = TileH
          /\ tile[a.tile].CurrentLOD = 0 /\ tile[a.tile].Enqueued

\* the tiles of the current set: Tiles[0:len(Tiles)], what Draw walks
CurrentSet == {Tiles[i] : i \in 1..TilesLen}

\* C22: every tile of the current set that is not Final has Enqueued set and an
\* uncancelled request for it in the queue or in a service.
C22_WorkScheduled ==
    (fault = "" /\ fpc.pc # "start") =>
       \A t \in CurrentSet :
          tile[t].CurrentLOD # 1 =>
             /\ tile[t].Enqueued
             /\ \E o \in Outstanding : o.Tile = t /\ ~Cancelled(o.Request)

\* C23: after MoveRequest(R) every tile of the current set has the screen position
\* of its region in the viewport R, and no tile that the call Reset is in the set
\* without having been requested again.
C23_PositionsConsistent ==
    (ev.t = "move" /\ fault = "") =>
       \A t \in CurrentSet :
          /\ tile[t].X = PixX(tile[t].What, ev.what, tm.Div, tm.TilePW)
          /\ tile[t].Y = PixY(tile[t].What, ev.what, tm.Div, tm.TilePH)
          /\ t \in ev.reset => t \in ev.requested

\* C24: in the single-image program, whenever main goes to the send on
\* discarder because a render is pending, the send and the receive on result
\* that follows both complete: main is back in its loop, whatever the goroutine
\* was doing.
C24_SupersedeCompletes == (mainpc = "discard") ~> (mainpc = "loop")

====
